---- MODULE Spec2Model ----
(***************************************************************************)
(* Deep-Chess: the position codec of scripts/utils.py (fen_to_array,       *)
(* array_to_fen) and the two datasets of scripts/dataset.py               *)
(* (DeepChessDataset, AEDataset).                                          *)
(*                                                                         *)
(* A Python str is a sequence of one-character strings; a FEN string is    *)
(* kept as the sequence of its whitespace-separated parts.  A chess.Board  *)
(* is a record of python-chess bitboards, each bitboard a set of squares   *)
(* 0..63 (a1 = 0, h1 = 7, a8 = 56, h8 = 63).  A numpy vector is a sequence *)
(* of integers; Python index i is TLA+ index i + 1.  A call's outcome is a *)
(* record [exc, value]: exc = "None" for a normal return, otherwise the    *)
(* name of the Python exception that reached the caller.                   *)
(***************************************************************************)
EXTENDS Integers, Sequences, FiniteSets, TLC

VARIABLES
    board,            \* the caller's argument of fen_to_array (str or chess.Board)
    array,            \* the caller's argument of array_to_fen
    dataset,          \* which object the caller holds: "codec", "decoder", "DeepChessDataset", "AEDataset"
    white_positions,  \* DeepChessDataset.white_positions
    black_positions,  \* DeepChessDataset.black_positions
    poses_per_epoch,  \* DeepChessDataset.poses_per_epoch
    positions,        \* AEDataset.positions
    op,               \* the last call made
    arg,              \* its index argument and the random draws it made
    ret               \* its outcome [exc, value]

vars == <<board, array, dataset, white_positions, black_positions,
          poses_per_epoch, positions, op, arg, ret>>

----------------------------------------------------------------------------
(* Bounds of the model *)

\* most pieces put on the sample squares of a generated board
MaxPieces == 3
\* longest corpus of a dataset
MaxCorpus == 2
\* most bits set in a generated decoder input
MaxBits == 2

----------------------------------------------------------------------------
(* python-chess constants *)

PAWN == 1
KNIGHT == 2
BISHOP == 3
ROOK == 4
QUEEN == 5
KING == 6
WHITE == TRUE
BLACK == FALSE

\* reshape(8, 8): rows and columns of a plane
ROWS == 8
\* array[index : index + 64]: the length of one plane
PLANE == 64

SQUARES == 0 .. (PLANE - 1)
A1 == 0
E1 == 4
H1 == 7
A8 == 56
E8 == 60
H8 == 63

square_file(s) == s % ROWS
square_rank(s) == s \div ROWS

BB_RANK_1 == {s \in SQUARES : square_rank(s) = 0}
BB_RANK_8 == {s \in SQUARES : square_rank(s) = 7}
BB_FILE_A == {s \in SQUARES : square_file(s) = 0}
BB_FILE_H == {s \in SQUARES : square_file(s) = 7}

\* chess.msb / chess.lsb of a bitboard; both give -1 for the empty bitboard
msb(bb) == IF bb = {} THEN -1 ELSE CHOOSE s \in bb : \A t \in bb : t <= s
lsb(bb) == IF bb = {} THEN -1 ELSE CHOOSE s \in bb : \A t \in bb : s <= t

\* chess.PIECE_SYMBOLS[piece_type]
PIECE_SYMBOLS == <<"p", "n", "b", "r", "q", "k">>
UPPER_SYMBOLS == <<"P", "N", "B", "R", "Q", "K">>
DIGITS == <<"1", "2", "3", "4", "5", "6", "7", "8">>

IsDigit(c) == \E d \in 1 .. 8 : DIGITS[d] = c
DigitValue(c) == CHOOSE d \in 1 .. 8 : DIGITS[d] = c
IsPieceSymbol(c) == \E t \in 1 .. 6 : PIECE_SYMBOLS[t] = c \/ UPPER_SYMBOLS[t] = c
\* chess.Piece.from_symbol(c)
SymbolType(c) == CHOOSE t \in 1 .. 6 : PIECE_SYMBOLS[t] = c \/ UPPER_SYMBOLS[t] = c
SymbolColor(c) == \E t \in 1 .. 6 : UPPER_SYMBOLS[t] = c
\* chess.Piece.symbol()
PieceSymbol(piece_type, color) ==
    IF color THEN UPPER_SYMBOLS[piece_type] ELSE PIECE_SYMBOLS[piece_type]

----------------------------------------------------------------------------
(* chess.Board *)

\* chess.Board(fen=None): no pieces, white to move, no castling rights
EmptyBoard ==
    [type |-> "Board",
     pawns |-> {}, knights |-> {}, bishops |-> {}, rooks |-> {},
     queens |-> {}, kings |-> {}, promoted |-> {},
     occupied_co |-> [c \in BOOLEAN |-> {}],
     turn |-> WHITE, castling_rights |-> {}, ep_square |-> -1,
     halfmove_clock |-> 0, fullmove_number |-> 1]

TypeBB(b, piece_type) ==
    CASE piece_type = PAWN -> b.pawns
      [] piece_type = KNIGHT -> b.knights
      [] piece_type = BISHOP -> b.bishops
      [] piece_type = ROOK -> b.rooks
      [] piece_type = QUEEN -> b.queens
      [] piece_type = KING -> b.kings

occupied(b) == b.occupied_co[WHITE] \cup b.occupied_co[BLACK]

\* BaseBoard.piece_type_at(square); 0 stands for None
piece_type_at(b, s) ==
    IF s \notin occupied(b) THEN 0
    ELSE IF s \in b.pawns THEN PAWN
    ELSE IF s \in b.knights THEN KNIGHT
    ELSE IF s \in b.bishops THEN BISHOP
    ELSE IF s \in b.rooks THEN ROOK
    ELSE IF s \in b.queens THEN QUEEN
    ELSE KING

\* BaseBoard.color_at(square), for an occupied square
color_at(b, s) == s \in b.occupied_co[WHITE]

\* BaseBoard.set_piece_at(square, piece): the square is cleared, then filled
set_piece_at(b, s, piece_type, color) ==
    [b EXCEPT
        !.pawns = IF piece_type = PAWN THEN @ \cup {s} ELSE @ \ {s},
        !.knights = IF piece_type = KNIGHT THEN @ \cup {s} ELSE @ \ {s},
        !.bishops = IF piece_type = BISHOP THEN @ \cup {s} ELSE @ \ {s},
        !.rooks = IF piece_type = ROOK THEN @ \cup {s} ELSE @ \ {s},
        !.queens = IF piece_type = QUEEN THEN @ \cup {s} ELSE @ \ {s},
        !.kings = IF piece_type = KING THEN @ \cup {s} ELSE @ \ {s},
        !.promoted = @ \ {s},
        !.occupied_co = [c \in BOOLEAN |-> IF c = color THEN @[c] \cup {s} ELSE @[c] \ {s}]]

\* BaseBoard.pieces(piece_type, color): the squares of that type and colour
pieces(b, piece_type, color) == TypeBB(b, piece_type) \cap b.occupied_co[color]

\* tolist with the ranks in FEN order (rank 8 first): a mirrored plane
tolist_mirrored(squareset) ==
    [i \in 1 .. PLANE |->
        IF ((ROWS - 1 - ((i - 1) \div ROWS)) * ROWS + ((i - 1) % ROWS)) \in squareset
        THEN 1 ELSE 0]

\* SquareSet.tolist() through np.asarray(..., dtype=int): 64 values, index = square
tolist(squareset) == [i \in 1 .. PLANE |-> IF (i - 1) \in squareset THEN 1 ELSE 0]

\* BaseBoard.king(color); -1 stands for None
king(b, color) == msb((b.occupied_co[color] \cap b.kings) \ b.promoted)

\* Board.clean_castling_rights() of a board with an empty move stack, standard chess
clean_castling_rights(b) ==
    LET castling == b.castling_rights \cap b.rooks
        white_castling == (castling \cap BB_RANK_1 \cap b.occupied_co[WHITE]) \cap {A1, H1}
        black_castling == (castling \cap BB_RANK_8 \cap b.occupied_co[BLACK]) \cap {A8, H8}
        white_ok == E1 \in ((b.occupied_co[WHITE] \cap b.kings) \ b.promoted)
        black_ok == E8 \in ((b.occupied_co[BLACK] \cap b.kings) \ b.promoted)
    IN  (IF white_ok THEN white_castling ELSE {}) \cup (IF black_ok THEN black_castling ELSE {})

\* The integer value of a bitboard restricted to one back rank, as the
\* comparisons rook > king_mask and rook < king_mask read it.
RECURSIVE MaskValue(_)
MaskValue(bb) ==
    IF bb = {} THEN 0
    ELSE LET s == CHOOSE x \in bb : TRUE
         IN  2 ^ square_file(s) + MaskValue(bb \ {s})

Backrank(color) == IF color = WHITE THEN BB_RANK_1 ELSE BB_RANK_8

\* Board.has_kingside_castling_rights(color)
has_kingside_castling_rights(b, color) ==
    LET king_mask == ((b.kings \cap b.occupied_co[color]) \cap Backrank(color)) \ b.promoted
        castling_rights == clean_castling_rights(b) \cap Backrank(color)
    IN  /\ king_mask # {}
        /\ \E rook \in castling_rights : 2 ^ square_file(rook) > MaskValue(king_mask)

\* Board.has_queenside_castling_rights(color)
has_queenside_castling_rights(b, color) ==
    LET king_mask == ((b.kings \cap b.occupied_co[color]) \cap Backrank(color)) \ b.promoted
        castling_rights == clean_castling_rights(b) \cap Backrank(color)
    IN  /\ king_mask # {}
        /\ \E rook \in castling_rights : 2 ^ square_file(rook) < MaskValue(king_mask)

----------------------------------------------------------------------------
(* FEN text: chess.Board(fen) and Board.fen() *)

\* np.concatenate(list of arrays), "".join(list of strings)
RECURSIVE concatenate(_)
concatenate(arrays) ==
    IF arrays = <<>> THEN <<>> ELSE Head(arrays) \o concatenate(Tail(arrays))

Ok(v) == [exc |-> "None", value |-> v]
Raise(e) == [exc |-> e, value |-> <<>>]

FILE_NAMES == <<"a", "b", "c", "d", "e", "f", "g", "h">>
UPPER_FILE_NAMES == <<"A", "B", "C", "D", "E", "F", "G", "H">>
DEC_DIGITS == <<"0", "1", "2", "3", "4", "5", "6", "7", "8", "9">>

\* str.split("/"): the pieces of s between its "/" characters
SplitRows(s) ==
    LET slashes == {i \in 1 .. Len(s) : s[i] = "/"}
        \* the position of the r-th "/"; 0 before the first, Len(s) + 1 after the last
        Cut(r) == IF r = 0 THEN 0
                  ELSE IF r > Cardinality(slashes) THEN Len(s) + 1
                  ELSE CHOOSE i \in slashes : Cardinality({j \in slashes : j < i}) = r - 1
    IN  [r \in 1 .. (Cardinality(slashes) + 1) |-> SubSeq(s, Cut(r - 1) + 1, Cut(r) - 1)]

\* The row check of BaseBoard._set_board_fen: the number of squares the row
\* describes, or -1 where the check raises ValueError.
RECURSIVE RowScan(_, _, _, _, _)
RowScan(row, i, field_sum, previous_was_digit, previous_was_piece) ==
    IF i > Len(row) THEN field_sum
    ELSE LET c == row[i]
         IN  IF IsDigit(c)
             THEN IF previous_was_digit THEN -1
                  ELSE RowScan(row, i + 1, field_sum + DigitValue(c), TRUE, FALSE)
             ELSE IF c = "~"
             THEN IF ~previous_was_piece THEN -1
                  ELSE RowScan(row, i + 1, field_sum, FALSE, FALSE)
             ELSE IF IsPieceSymbol(c)
             THEN RowScan(row, i + 1, field_sum + 1, FALSE, TRUE)
             ELSE -1

RowsOk(rows) ==
    /\ Len(rows) = ROWS
    /\ \A r \in 1 .. Len(rows) : RowScan(rows[r], 1, 0, FALSE, FALSE) = ROWS

BoardPartOk(board_part) == RowsOk(SplitRows(board_part))

\* chess.SQUARES_180[i]: the i-th square in FEN reading order (a8 first, h1 last)
SQUARES_180(i) == (ROWS - 1 - (i \div ROWS)) * ROWS + (i % ROWS)

\* The placing loop of BaseBoard._set_board_fen over the characters of one
\* row; "/" is passed over by the loop, and a row that passed the check
\* describes eight squares, so row r starts at square_index = 8 * r.
RECURSIVE PutRow(_, _, _, _)
PutRow(row, i, square_index, b) ==
    IF i > Len(row) \/ b.type # "Board" THEN b
    ELSE LET c == row[i]
             b1 == IF IsPieceSymbol(c)
                   THEN set_piece_at(b, SQUARES_180(square_index), SymbolType(c), SymbolColor(c))
                   ELSE IF c = "~"
                   THEN [b EXCEPT !.promoted = @ \cup {SQUARES_180(square_index - 1)}]
                   ELSE b
             next == IF IsDigit(c) THEN square_index + DigitValue(c)
                     ELSE IF IsPieceSymbol(c) THEN square_index + 1
                     ELSE square_index
         IN  PutRow(row, i + 1, next, b1)

RECURSIVE PutRows(_, _, _)
PutRows(rows, r, b) ==
    IF r > Len(rows) \/ b.type # "Board" THEN b
    ELSE LET b1 == PutRow(rows[r], 1, (r - 1) * ROWS, b)
         IN  PutRows(rows, r + 1, b1)

PutPieces(board_part) == PutRows(SplitRows(board_part), 1, EmptyBoard)

\* chess.FEN_CASTLING_REGEX: "-" or [KQA-H]{0,2}[kqa-h]{0,2}
IsUpperFlag(c) == c \in {"K", "Q"} \/ \E f \in 1 .. 8 : UPPER_FILE_NAMES[f] = c
IsLowerFlag(c) == c \in {"k", "q"} \/ \E f \in 1 .. 8 : FILE_NAMES[f] = c
CastlingFenOk(castling_fen) ==
    \/ castling_fen = <<"-">>
    \/ \E n \in 0 .. 2 :
          /\ n <= Len(castling_fen)
          /\ Len(castling_fen) - n <= 2
          /\ \A i \in 1 .. n : IsUpperFlag(castling_fen[i])
          /\ \A i \in (n + 1) .. Len(castling_fen) : IsLowerFlag(castling_fen[i])

\* One flag of Board._set_castling_fen: the rook square it adds to the rights
CastlingFlag(b, flag) ==
    LET color == IF IsUpperFlag(flag) THEN WHITE ELSE BLACK
        backrank == Backrank(color)
        rooks == (b.occupied_co[color] \cap b.rooks) \cap backrank
        k == king(b, color)
    IN  IF flag \in {"Q", "q"}
        THEN IF k # -1 /\ lsb(rooks) < k
             THEN (IF rooks = {} THEN {} ELSE {lsb(rooks)})
             ELSE BB_FILE_A \cap backrank
        ELSE IF flag \in {"K", "k"}
        THEN IF k # -1 /\ k < msb(rooks)
             THEN {msb(rooks)}
             ELSE BB_FILE_H \cap backrank
        ELSE {s \in backrank : \E f \in 1 .. 8 :
                 /\ (FILE_NAMES[f] = flag \/ UPPER_FILE_NAMES[f] = flag)
                 /\ square_file(s) = f - 1}

\* Board._set_castling_fen(castling_fen), followed by clear_stack()
set_castling_fen(b, castling_fen) ==
    IF castling_fen = <<>> \/ castling_fen = <<"-">>
    THEN Ok([b EXCEPT !.castling_rights = {}])
    ELSE IF ~CastlingFenOk(castling_fen) THEN Raise("ValueError")
    ELSE Ok([b EXCEPT !.castling_rights =
                UNION {CastlingFlag(b, castling_fen[i]) : i \in 1 .. Len(castling_fen)}])

\* int(text) of a string of decimal digits; -1 where int() or the sign check raises
RECURSIVE ParseInt(_, _, _)
ParseInt(text, i, acc) ==
    IF text = <<>> THEN -1
    ELSE IF i > Len(text) THEN acc
    ELSE IF \E d \in 1 .. 10 : DEC_DIGITS[d] = text[i]
    THEN ParseInt(text, i + 1, acc * 10 + ((CHOOSE d \in 1 .. 10 : DEC_DIGITS[d] = text[i]) - 1))
    ELSE -1

\* str(n), n >= 0
RECURSIVE Str(_)
Str(n) ==
    IF n < 10 THEN <<DEC_DIGITS[n + 1]>>
    ELSE Str(n \div 10) \o <<DEC_DIGITS[(n % 10) + 1]>>

\* chess.SQUARE_NAMES.index(text); -1 where it raises ValueError
ParseSquare(text) ==
    IF /\ Len(text) = 2
       /\ \E f \in 1 .. 8 : FILE_NAMES[f] = text[1]
       /\ IsDigit(text[2])
    THEN (DigitValue(text[2]) - 1) * ROWS + ((CHOOSE f \in 1 .. 8 : FILE_NAMES[f] = text[1]) - 1)
    ELSE -1

\* chess.Board(fen) for a str: Board.set_fen(fen).  parts = fen.split()
Board(parts) ==
    LET n == Len(parts)
        turn_part == IF n >= 2 THEN parts[2] ELSE <<"w">>
        castling_part == IF n >= 3 THEN parts[3] ELSE <<"-">>
        ep_part == IF n >= 4 THEN parts[4] ELSE <<"-">>
        halfmove == IF n >= 5 THEN ParseInt(parts[5], 1, 0) ELSE 0
        fullmove == IF n >= 6 THEN ParseInt(parts[6], 1, 0) ELSE 1
    IN  IF n = 0 THEN Raise("ValueError")
        ELSE IF turn_part \notin {<<"w">>, <<"b">>} THEN Raise("ValueError")
        ELSE IF ~CastlingFenOk(castling_part) THEN Raise("ValueError")
        ELSE IF ep_part # <<"-">> /\ ParseSquare(ep_part) = -1 THEN Raise("ValueError")
        ELSE IF halfmove < 0 \/ fullmove < 0 THEN Raise("ValueError")
        ELSE IF n > 6 THEN Raise("ValueError")
        ELSE IF ~BoardPartOk(parts[1]) THEN Raise("ValueError")
        ELSE LET placed == PutPieces(parts[1])
                 turned == [placed EXCEPT
                               !.turn = (turn_part = <<"w">>),
                               !.ep_square = IF ep_part = <<"-">> THEN -1 ELSE ParseSquare(ep_part),
                               !.halfmove_clock = halfmove,
                               !.fullmove_number = IF fullmove = 0 THEN 1 ELSE fullmove]
             IN  set_castling_fen(turned, castling_part)

\* BaseBoard.board_fen(): squares in SQUARES_180 order, runs of empty squares
\* counted and written before the next piece or at the h-file, "/" after
\* every rank but the last.  The count is 0 at the start of every rank, so
\* the loop is taken one rank (eight squares from i) at a time.
RECURSIVE rank_fen(_, _, _)
rank_fen(b, i, empty) ==
    LET square == SQUARES_180(i)
        t == piece_type_at(b, square)
        here == IF t = 0 THEN <<>>
                ELSE (IF empty > 0 THEN <<DIGITS[empty]>> ELSE <<>>)
                     \o <<PieceSymbol(t, color_at(b, square))>>
        empty1 == IF t = 0 THEN empty + 1 ELSE 0
    IN  IF square \in BB_FILE_H
        THEN here \o (IF empty1 > 0 THEN <<DIGITS[empty1]>> ELSE <<>>)
                  \o (IF square # H1 THEN <<"/">> ELSE <<>>)
        ELSE here \o rank_fen(b, i + 1, empty1)

board_fen(b) == concatenate([r \in 1 .. ROWS |-> rank_fen(b, (r - 1) * ROWS, 0)])

\* Board.castling_xfen(): the rooks of the clean rights, h-side first, white first
CastlingChars(b, color) ==
    LET k == king(b, color)
        backrank == Backrank(color)
        rights == clean_castling_rights(b) \cap backrank
        Ch(rook_square) ==
            LET a_side == square_file(rook_square) < square_file(k)
                other_rooks == ((b.occupied_co[color] \cap b.rooks) \cap backrank) \ {rook_square}
                outer == \E other \in other_rooks :
                            (square_file(other) < square_file(rook_square)) = a_side
                f == square_file(rook_square) + 1
            IN  IF outer THEN (IF color THEN UPPER_FILE_NAMES[f] ELSE FILE_NAMES[f])
                ELSE IF a_side THEN (IF color THEN "Q" ELSE "q")
                ELSE (IF color THEN "K" ELSE "k")
        RECURSIVE Scan(_)
        Scan(bb) == IF bb = {} THEN <<>> ELSE <<Ch(msb(bb))>> \o Scan(bb \ {msb(bb)})
    IN  IF k = -1 THEN <<>> ELSE Scan(rights)

castling_xfen(b) ==
    LET builder == CastlingChars(b, WHITE) \o CastlingChars(b, BLACK)
    IN  IF builder # <<>> THEN builder ELSE <<"-">>

\* Board.fen() of a board without an en passant square: the six parts
fen(b) ==
    <<board_fen(b),
      IF b.turn = WHITE THEN <<"w">> ELSE <<"b">>,
      castling_xfen(b),
      <<"-">>,
      Str(b.halfmove_clock),
      Str(b.fullmove_number)>>

----------------------------------------------------------------------------
(* scripts/utils.py *)

\* int(bool)
int(x) == IF x THEN 1 ELSE 0

\* the lists piece_types and colors of fen_to_array
fen_to_array_piece_types == <<PAWN, ROOK, KNIGHT, BISHOP, QUEEN, KING>>
fen_to_array_colors == <<WHITE, BLACK>>

\* the loops of fen_to_array over colors and piece_types: the list pieces
fen_to_array_pieces(b) ==
    LET nt == Len(fen_to_array_piece_types)
        n == Len(fen_to_array_colors) * nt
    IN  [k \in 1 .. n |->
            tolist(pieces(b, fen_to_array_piece_types[((k - 1) % nt) + 1],
                             fen_to_array_colors[((k - 1) \div nt) + 1]))]

\* an encoder that leaves the side to move of a chess.Board it was given flipped
fen_to_array_board_mutating(b, argument) ==
    [exc |-> "None",
     value |-> concatenate(fen_to_array_pieces(b) \o
                  << <<int(b.turn)>>,
                     <<int(has_kingside_castling_rights(b, WHITE)),
                       int(has_queenside_castling_rights(b, WHITE)),
                       int(has_kingside_castling_rights(b, BLACK)),
                       int(has_queenside_castling_rights(b, BLACK))>> >>),
     arg |-> IF argument.type = "Board" THEN [argument EXCEPT !.turn = ~@] ELSE argument]

\* fen_to_array(board) for a parsed board: value is the vector, arg the
\* argument object as the call leaves it
fen_to_array_board(b, argument) ==
    LET side_to_move == <<int(b.turn)>>
        castling_rights ==
            <<int(has_kingside_castling_rights(b, WHITE)),
              int(has_queenside_castling_rights(b, WHITE)),
              int(has_kingside_castling_rights(b, BLACK)),
              int(has_queenside_castling_rights(b, BLACK))>>
        result == concatenate(fen_to_array_pieces(b) \o <<side_to_move, castling_rights>>)
    IN  [exc |-> "None", value |-> result, arg |-> argument]

\* a str that does not parse encoded as the empty board instead of raising
fen_to_array_parsed_lenient(parsed, x) ==
    IF parsed.exc # "None"
    THEN fen_to_array_board(EmptyBoard, x)
    ELSE fen_to_array_board(parsed.value, x)

\* fen_to_array after "chess.Board(board)", parsed being its outcome: a str
\* that does not parse raises ValueError out of fen_to_array
fen_to_array_parsed(parsed, x) ==
    IF parsed.exc # "None"
    THEN [exc |-> parsed.exc, value |-> <<>>, arg |-> x]
    ELSE fen_to_array_board(parsed.value, x)

\* fen_to_array(board): a str is parsed by chess.Board(board) first, a
\* chess.Board is used as it is
fen_to_array(x) ==
    IF x.type = "str" THEN fen_to_array_parsed(Board(x.parts), x)
    ELSE fen_to_array_board(x, x)

\* the piece types in python-chess's numeric order instead of the encoder's
array_to_fen_piece_types_numeric == <<PAWN, KNIGHT, BISHOP, ROOK, QUEEN, KING>>

\* the lists piece_types and colors of array_to_fen
array_to_fen_piece_types == <<PAWN, ROOK, KNIGHT, BISHOP, QUEEN, KING>>
array_to_fen_colors == <<WHITE, BLACK>>

\* array[lo : hi] with Python indices: the slice is cut at the end of the array
Slice(a, lo, hi) ==
    LET top == IF hi < Len(a) THEN hi ELSE Len(a)
    IN  IF lo >= top THEN <<>> ELSE SubSeq(a, lo + 1, top)

\* the first plane to claim a square keeps it: occupied squares are passed over
set_plane_first_wins(b, todo, piece_type, color) ==
    [b EXCEPT
        !.pawns = IF piece_type = PAWN THEN @ \cup (todo \ occupied(b)) ELSE @,
        !.knights = IF piece_type = KNIGHT THEN @ \cup (todo \ occupied(b)) ELSE @,
        !.bishops = IF piece_type = BISHOP THEN @ \cup (todo \ occupied(b)) ELSE @,
        !.rooks = IF piece_type = ROOK THEN @ \cup (todo \ occupied(b)) ELSE @,
        !.queens = IF piece_type = QUEEN THEN @ \cup (todo \ occupied(b)) ELSE @,
        !.kings = IF piece_type = KING THEN @ \cup (todo \ occupied(b)) ELSE @,
        !.occupied_co = [c \in BOOLEAN |->
                            IF c = color THEN @[c] \cup (todo \ occupied(b)) ELSE @[c]]]

\* the two inner loops of array_to_fen over one reshaped plane: row i and
\* column j give square_index = i * 8 + j, so the squares are visited in
\* ascending order and those whose value is 0 are passed over.  todo holds
\* the squares still to visit whose value is not 0.
RECURSIVE set_plane(_, _, _, _)
set_plane(b, todo, piece_type, color) ==
    IF todo = {} \/ b.type # "Board" THEN b
    ELSE LET square_index == lsb(todo)
             b1 == set_piece_at(b, square_index, piece_type, color)
         IN  set_plane(b1, todo \ {square_index}, piece_type, color)

\* the squares i * 8 + j of a reshaped plane whose value is true
Truthy(piece_array) ==
    {i * ROWS + j : i \in 0 .. (ROWS - 1), j \in 0 .. (ROWS - 1)}
    \cap {s \in SQUARES : piece_array[s + 1] # 0}

\* the outer loops of array_to_fen from plane k on; reshape(8, 8) raises
\* ValueError for a slice that does not hold 64 values
RECURSIVE set_planes(_, _, _, _)
set_planes(b, a, k, index) ==
    LET nt == Len(array_to_fen_piece_types)
    IN  IF k >= Len(array_to_fen_colors) * nt \/ b.type # "Board" THEN Ok(b)
        ELSE LET piece_array == Slice(a, index, index + PLANE)
             IN  IF Len(piece_array) # ROWS * ROWS THEN Raise("ValueError")
                 ELSE set_planes(set_plane(b, Truthy(piece_array),
                                           array_to_fen_piece_types[(k % nt) + 1],
                                           array_to_fen_colors[(k \div nt) + 1]),
                                 a, k + 1, index + PLANE)

\* "return board.fen()", castled being the outcome of set_castling_fen
array_to_fen_return(castled) ==
    IF castled.exc # "None" THEN castled ELSE Ok(fen(castled.value))

\* array_to_fen from "board.turn = bool(array[index])" on, placed being the
\* outcome of the loops: array[index] and array[index + 1 .. index + 4]
\* raise IndexError past the end of the array
array_to_fen_tail(placed, a, index) ==
    IF placed.exc # "None" THEN placed
    ELSE IF index >= Len(a) THEN Raise("IndexError")
    ELSE IF index + 4 >= Len(a) THEN Raise("IndexError")
    ELSE LET turned == [placed.value EXCEPT !.turn = (a[index + 1] # 0)]
             castling_fen ==
                 (IF a[index + 2] # 0 THEN <<"K">> ELSE <<>>)
                 \o (IF a[index + 3] # 0 THEN <<"Q">> ELSE <<>>)
                 \o (IF a[index + 4] # 0 THEN <<"k">> ELSE <<>>)
                 \o (IF a[index + 5] # 0 THEN <<"q">> ELSE <<>>)
         IN  \* board.clean_castling_rights() returns a value that is dropped
             array_to_fen_return(set_castling_fen(turned, castling_fen))

\* array_to_fen(array)
array_to_fen(a) ==
    array_to_fen_tail(set_planes(EmptyBoard, a, 0, 0), a,
                      Len(array_to_fen_colors) * Len(array_to_fen_piece_types) * PLANE)

----------------------------------------------------------------------------
(* scripts/dataset.py *)

\* torch.randint(high, (1,)).item(): the values it can draw; none when
\* high <= 0, where it raises RuntimeError
randint(high) == 0 .. (high - 1)

\* indexing that counts every index from the end of the list
ListIndex_reversed(list, index) ==
    IF 0 <= index /\ index < Len(list) THEN Len(list) - index
    ELSE IF index < 0 /\ -Len(list) <= index THEN Len(list) + index + 1
    ELSE 0

\* list[index] with Python's indexing: a negative index counts from the end;
\* 0 where the index is out of range (IndexError), else the TLA+ index
ListIndex(list, index) ==
    IF 0 <= index /\ index < Len(list) THEN index + 1
    ELSE IF index < 0 /\ -Len(list) <= index THEN Len(list) + index + 1
    ELSE 0

\* the two labels exchanged
DeepChessDataset_return_swapped(white_position, black_position, side) ==
    IF side = 0
    THEN <<white_position, black_position, <<0, 1>> >>
    ELSE <<black_position, white_position, <<1, 0>> >>

\* lines 33 and 35 of DeepChessDataset.__getitem__: the returned triple
DeepChessDataset_return(white_position, black_position, side) ==
    IF side = 0
    THEN <<white_position, black_position, <<1, 0>> >>
    ELSE <<black_position, white_position, <<0, 1>> >>

\* DeepChessDataset.__getitem__ from line 27 on, the two positions being the
\* outcomes of the fen_to_array calls; an exception of the first call ends
\* __getitem__ before the second is made
DeepChessDataset_encoded(white, black, white_index, black_index, side, white_position, black_position) ==
    IF white_position.exc # "None"
    THEN [exc |-> white_position.exc, value |-> <<>>,
          white |-> [white EXCEPT ![white_index + 1] = white_position.arg],
          black |-> black]
    ELSE IF black_position.exc # "None"
    THEN [exc |-> black_position.exc, value |-> <<>>,
          white |-> [white EXCEPT ![white_index + 1] = white_position.arg],
          black |-> [black EXCEPT ![black_index + 1] = black_position.arg]]
    ELSE [exc |-> "None",
          value |-> DeepChessDataset_return(white_position.value, black_position.value, side),
          white |-> [white EXCEPT ![white_index + 1] = white_position.arg],
          black |-> [black EXCEPT ![black_index + 1] = black_position.arg]]

\* an empty corpus answered with an empty result instead of an error
DeepChessDataset_getitem_unguarded(white, black, index, white_index, black_index, side) ==
    IF randint(Len(white)) = {} \/ randint(Len(black)) = {}
    THEN [exc |-> "None", value |-> <<>>, white |-> white, black |-> black]
    ELSE DeepChessDataset_encoded(white, black, white_index, black_index, side,
                                  fen_to_array(white[white_index + 1]),
                                  fen_to_array(black[black_index + 1]))

\* DeepChessDataset.__getitem__(index) with the three draws it makes.  The
\* outcome holds the corpora as the call leaves them.
DeepChessDataset_getitem(white, black, index, white_index, black_index, side) ==
    IF randint(Len(white)) = {} \/ randint(Len(black)) = {}
    THEN [exc |-> "RuntimeError", value |-> <<>>, white |-> white, black |-> black]
    ELSE DeepChessDataset_encoded(white, black, white_index, black_index, side,
                                  fen_to_array(white[white_index + 1]),
                                  fen_to_array(black[black_index + 1]))

\* DeepChessDataset.__len__()
DeepChessDataset_len(poses) == poses

\* AEDataset.__len__()
AEDataset_len(list) == Len(list)

\* "return fen_to_array(self.positions[index])", r being the outcome of the call
AEDataset_return(list, i, r) ==
    [exc |-> r.exc, value |-> r.value, positions |-> [list EXCEPT ![i] = r.arg]]

\* AEDataset.__getitem__(index)
AEDataset_getitem(list, index) ==
    IF ListIndex(list, index) = 0
    THEN [exc |-> "IndexError", value |-> <<>>, positions |-> list]
    ELSE AEDataset_return(list, ListIndex(list, index), fen_to_array(list[ListIndex(list, index)]))

----------------------------------------------------------------------------
(* Inputs *)

Str_(parts) == [type |-> "str", parts |-> parts]

\* "rnbqkbnr/pppppppp/8/8/8/8/PPPPPPPP/RNBQKBNR w KQkq - 0 1"
STARTING_FEN ==
    Str_(<<<<"r", "n", "b", "q", "k", "b", "n", "r", "/", "p", "p", "p", "p", "p", "p", "p", "p", "/", "8", "/", "8", "/", "8", "/", "8", "/", "P", "P", "P", "P", "P", "P", "P", "P", "/", "R", "N", "B", "Q", "K", "B", "N", "R">>,
      <<"w">>,
      <<"K", "Q", "k", "q">>,
      <<"-">>,
      <<"0">>,
      <<"1">>>>)

\* "r3k2r/8/8/3p4/8/2B5/8/R3K2R b Kq - 3 7", held as a chess.Board
CASTLING_BOARD ==
    Board(<<<<"r", "3", "k", "2", "r", "/", "8", "/", "8", "/", "3", "p", "4", "/", "8", "/", "2", "B", "5", "/", "8", "/", "R", "3", "K", "2", "R">>,
      <<"b">>,
      <<"K", "q">>,
      <<"-">>,
      <<"3">>,
      <<"7">>>>).value

\* "4k3/8/5n2/8/3P4/8/8/4K1N1 b - - 5 20"
ENDGAME_FEN ==
    Str_(<<<<"4", "k", "3", "/", "8", "/", "5", "n", "2", "/", "8", "/", "3", "P", "4", "/", "8", "/", "8", "/", "4", "K", "1", "N", "1">>,
      <<"b">>,
      <<"-">>,
      <<"-">>,
      <<"5">>,
      <<"2", "0">>>>)

\* a line whose last rank describes seven squares
BAD_FEN ==
    Str_(<<<<"r", "n", "b", "q", "k", "b", "n", "r", "/", "p", "p", "p", "p", "p", "p", "p", "p", "/", "8", "/", "8", "/", "8", "/", "8", "/", "P", "P", "P", "P", "P", "P", "P", "P", "/", "R", "N", "B", "Q", "K", "B", "N">>,
      <<"w">>,
      <<"K", "Q", "k", "q">>,
      <<"-">>,
      <<"0">>,
      <<"1">>>>)

\* the records the corpora of a DeepChessDataset are drawn from
RecordPool == {STARTING_FEN, CASTLING_BOARD, BAD_FEN}

\* the records the corpus of an AEDataset is drawn from
AEPool == RecordPool \cup {ENDGAME_FEN}

\* Sequences over S of length at most n
SeqsUpTo(S, n) == UNION {[1 .. k -> S] : k \in 0 .. n}

Range(f) == {f[i] : i \in DOMAIN f}

\* the default of the parameter poses_per_epoch
DEFAULT_POSES_PER_EPOCH == 1000000

\* (square, piece type, colour) placements a generated board is made of:
\* the castling skeleton, pieces that stand in its way, and one piece of
\* every remaining kind
Candidates ==
    {<<E1, KING, WHITE>>, <<A1, ROOK, WHITE>>, <<H1, ROOK, WHITE>>,
     <<E8, KING, BLACK>>, <<A8, ROOK, BLACK>>, <<H8, ROOK, BLACK>>,
     <<H1, KNIGHT, WHITE>>, <<E1, QUEEN, WHITE>>, <<A8, BISHOP, BLACK>>,
     <<27, PAWN, WHITE>>, <<18, BISHOP, WHITE>>,
     <<35, PAWN, BLACK>>, <<45, KNIGHT, BLACK>>, <<59, QUEEN, BLACK>>}

Placements ==
    {P \in SUBSET Candidates :
        /\ Cardinality(P) <= MaxPieces
        /\ \A x, y \in P : x[1] = y[1] => x = y}

RECURSIVE PlaceAll(_, _)
PlaceAll(b, P) ==
    IF P = {} THEN b
    ELSE LET x == CHOOSE y \in P : TRUE
         IN  PlaceAll(set_piece_at(b, x[1], x[2], x[3]), P \ {x})

\* the castling fields a generated FEN carries
CastlingFields ==
    {<<"-">>, <<"K">>, <<"q">>, <<"K", "Q">>, <<"Q", "k">>, <<"K", "Q", "k", "q">>}

\* the FEN text of a generated position
GeneratedFen(P, turn, castling) ==
    Str_(<<board_fen(PlaceAll(EmptyBoard, P)), turn, castling, <<"-">>, <<"0">>, <<"1">> >>)

\* (plane, square) bits and trailing bits a generated vector may have set
BitCandidates ==
    {k * PLANE + E1 : k \in 0 .. 11} \cup {k * PLANE + H8 : k \in {0, 7, 11}}
    \cup {12 * PLANE, 12 * PLANE + 1, 12 * PLANE + 4}

\* the lengths of generated vectors
Lengths == {0, 767, 768, 772, 773, 774}

\* a vector of length n with exactly the bits of S set (Python indices)
Vector(S, n) == [i \in 1 .. n |-> IF (i - 1) \in S THEN 1 ELSE 0]

NoArg == [index |-> -1, white_index |-> -1, black_index |-> -1, side |-> -1]
NoRet == [exc |-> "None", value |-> <<>>]

----------------------------------------------------------------------------
(* The state machine *)

\* the caller holds a position and calls the codec on it
InitCodec ==
    /\ dataset = "codec"
    /\ \E P \in Placements, turn \in {<<"w">>, <<"b">>}, castling \in CastlingFields :
          board = GeneratedFen(P, turn, castling)
    /\ array = <<>>
    /\ white_positions = <<>> /\ black_positions = <<>> /\ positions = <<>>
    /\ poses_per_epoch = 0
    /\ op = "init" /\ arg = NoArg /\ ret = NoRet

\* the caller holds a vector and calls the decoder on it
InitDecoder ==
    /\ dataset = "decoder"
    /\ board = Str_(<<>>)
    /\ \E S \in SUBSET BitCandidates, n \in Lengths :
          /\ Cardinality(S) <= MaxBits
          /\ array = Vector(S, n)
    /\ white_positions = <<>> /\ black_positions = <<>> /\ positions = <<>>
    /\ poses_per_epoch = 0
    /\ op = "init" /\ arg = NoArg /\ ret = NoRet

\* DeepChessDataset.__init__ over two disjoint corpora, AEDataset.__init__
\* over one corpus, or a caller holding one record
InitSampler ==
    /\ array = <<>>
    /\ op = "init" /\ arg = NoArg /\ ret = NoRet
    /\ \/ /\ dataset = "DeepChessDataset"
          /\ white_positions \in SeqsUpTo(RecordPool, MaxCorpus)
          /\ black_positions \in SeqsUpTo(RecordPool, MaxCorpus)
          /\ Range(white_positions) \cap Range(black_positions) = {}
          /\ poses_per_epoch \in {DEFAULT_POSES_PER_EPOCH, MaxCorpus}
          /\ positions = <<>>
          /\ board = Str_(<<>>)
       \/ /\ dataset = "AEDataset"
          /\ positions \in SeqsUpTo(AEPool, MaxCorpus)
          /\ white_positions = <<>> /\ black_positions = <<>>
          /\ poses_per_epoch = 0
          /\ board = Str_(<<>>)
       \/ /\ dataset = "codec"
          /\ board \in AEPool
          /\ white_positions = <<>> /\ black_positions = <<>> /\ positions = <<>>
          /\ poses_per_epoch = 0

\* a call fen_to_array(board); the caller keeps the vector it returns
FenToArray ==
    /\ dataset = "codec"
    /\ \E r \in {fen_to_array(board)} :
           /\ ret' = [exc |-> r.exc, value |-> r.value]
           /\ board' = r.arg
           /\ array' = IF r.exc = "None" THEN r.value ELSE array
    /\ op' = "fen_to_array"
    /\ arg' = NoArg
    /\ UNCHANGED <<dataset, white_positions, black_positions, poses_per_epoch, positions>>

\* a call array_to_fen(array), on a vector the caller made or on the one
\* fen_to_array returned
ArrayToFen ==
    /\ \/ dataset = "decoder"
       \/ dataset = "codec" /\ op = "fen_to_array" /\ ret.exc = "None"
    /\ ret' = array_to_fen(array)
    /\ op' = "array_to_fen"
    /\ arg' = NoArg
    /\ UNCHANGED <<board, array, dataset, white_positions, black_positions,
                   poses_per_epoch, positions>>

\* a call DeepChessDataset.__getitem__(index)
DeepChessGetItem ==
    /\ dataset = "DeepChessDataset"
    /\ \E index \in {0, poses_per_epoch - 1} :
       \E white_index \in (IF randint(Len(white_positions)) = {} THEN {-1}
                           ELSE randint(Len(white_positions))) :
       \E black_index \in (IF randint(Len(black_positions)) = {} THEN {-1}
                           ELSE randint(Len(black_positions))) :
       \E side \in randint(2) :
          \E r \in {DeepChessDataset_getitem(white_positions, black_positions, index,
                                            white_index, black_index, side)} :
              /\ ret' = [exc |-> r.exc, value |-> r.value]
              /\ white_positions' = r.white
              /\ black_positions' = r.black
              /\ arg' = [index |-> index, white_index |-> white_index,
                         black_index |-> black_index, side |-> side]
    /\ op' = "DeepChessDataset.__getitem__"
    /\ UNCHANGED <<board, array, dataset, poses_per_epoch, positions>>

\* a call DeepChessDataset.__len__()
DeepChessLen ==
    /\ dataset = "DeepChessDataset"
    /\ ret' = Ok(DeepChessDataset_len(poses_per_epoch))
    /\ op' = "DeepChessDataset.__len__"
    /\ arg' = NoArg
    /\ UNCHANGED <<board, array, dataset, white_positions, black_positions,
                   poses_per_epoch, positions>>

\* a call AEDataset.__getitem__(index)
AEGetItem ==
    /\ dataset = "AEDataset"
    /\ \E index \in (-(MaxCorpus + 1)) .. (MaxCorpus + 1) :
          \E r \in {AEDataset_getitem(positions, index)} :
              /\ ret' = [exc |-> r.exc, value |-> r.value]
              /\ positions' = r.positions
              /\ arg' = [NoArg EXCEPT !.index = index]
    /\ op' = "AEDataset.__getitem__"
    /\ UNCHANGED <<board, array, dataset, white_positions, black_positions, poses_per_epoch>>

\* a call AEDataset.__len__()
AELen ==
    /\ dataset = "AEDataset"
    /\ ret' = Ok(AEDataset_len(positions))
    /\ op' = "AEDataset.__len__"
    /\ arg' = NoArg
    /\ UNCHANGED <<board, array, dataset, white_positions, black_positions,
                   poses_per_epoch, positions>>

NextCodec == FenToArray \/ ArrayToFen
NextSampler == FenToArray \/ DeepChessGetItem \/ DeepChessLen \/ AEGetItem \/ AELen

\* the codec on generated positions
SpecCodec == InitCodec /\ [][NextCodec]_vars
\* the decoder on generated vectors
SpecDecoder == InitDecoder /\ [][ArrayToFen]_vars
\* the datasets over corpora drawn from the pool
SpecSampler == InitSampler /\ [][NextSampler]_vars

----------------------------------------------------------------------------
(* Properties *)

\* the board a record describes: a str through chess.Board(str)
AsBoard(x) == IF x.type = "str" THEN Board(x.parts).value ELSE x

\* a str that chess.Board(str) does not parse
Unparsable(x) == x.type = "str" /\ Board(x.parts).exc # "None"

\* what stands on square s: <<0, FALSE>> for nothing, else <<piece type, colour>>
PieceAt(b, s) ==
    IF piece_type_at(b, s) = 0 THEN <<0, FALSE>> ELSE <<piece_type_at(b, s), color_at(b, s)>>

\* the four castling rights of a board: white kingside, white queenside,
\* black kingside, black queenside
Rights(b) ==
    <<has_kingside_castling_rights(b, WHITE), has_queenside_castling_rights(b, WHITE),
      has_kingside_castling_rights(b, BLACK), has_queenside_castling_rights(b, BLACK)>>

\* the (colour, type) pairs in the order the vector layout names them:
\* White then Black; Pawn, Rook, Knight, Bishop, Queen, King
LayoutPair(k) ==
    <<(<<PAWN, ROOK, KNIGHT, BISHOP, QUEEN, KING>>)[(k % 6) + 1], k < 6>>

\* a castling right read off the position itself: the flag is in the FEN's
\* castling field, the king of that colour stands on its e-file home square
\* and a rook of that colour on the corner
HomeRight(x, b, flag, king_square, rook_square, color) ==
    /\ \E i \in 1 .. Len(x.parts[3]) : x.parts[3][i] = flag
    /\ PieceAt(b, king_square) = <<KING, color>>
    /\ PieceAt(b, rook_square) = <<ROOK, color>>

\* C1: round trip.  After fen_to_array(B) and array_to_fen of the vector it
\* returned, the FEN that comes back parses to a board with the same piece on
\* each of the 64 squares, the same side to move and the same four castling
\* rights as B.
C1_RoundTrip ==
    (dataset = "codec" /\ op = "array_to_fen") =>
        /\ ret.exc = "None"
        /\ \A B \in {AsBoard(board)} : \A back \in {Board(ret.value)} :
              /\ back.exc = "None"
              /\ \A s \in SQUARES : PieceAt(back.value, s) = PieceAt(B, s)
              /\ back.value.turn = B.turn
              /\ Rights(back.value) = Rights(B)

\* C1 witness: a round trip of a position with black to move in which white
\* may castle kingside and one castling flag of the FEN is not backed by a rook
C1_Witness ==
    /\ dataset = "codec" /\ op = "array_to_fen" /\ ret.exc = "None"
    /\ board.parts[2] = <<"b">>
    /\ board.parts[3] = <<"K", "Q">>
    /\ \E B \in {AsBoard(board)} :
          /\ Rights(B) = <<TRUE, FALSE, FALSE, FALSE>>
          /\ Cardinality(occupied(B)) = 3

\* C2: vector layout.  fen_to_array(B) has 773 elements, each 0 or 1;
\* element 64*k+s is 1 iff square s holds the piece of the k-th (colour, type)
\* pair; element 768 is 1 iff white is to move; elements 769..772 are the
\* castling rights white-kingside, white-queenside, black-kingside,
\* black-queenside.
C2_Layout ==
    (dataset = "codec" /\ op = "fen_to_array") =>
        /\ ret.exc = "None"
        /\ Len(ret.value) = 773
        /\ \A i \in 1 .. Len(ret.value) : ret.value[i] \in {0, 1}
        /\ \A B \in {AsBoard(board)} :
              /\ \A k \in 0 .. 11 : \A s \in 0 .. 63 :
                    (ret.value[64 * k + s + 1] = 1) <=> (PieceAt(B, s) = LayoutPair(k))
              /\ (ret.value[768 + 1] = 1) <=> (board.parts[2] = <<"w">>)
              /\ (ret.value[769 + 1] = 1) <=> HomeRight(board, B, "K", E1, H1, WHITE)
              /\ (ret.value[770 + 1] = 1) <=> HomeRight(board, B, "Q", E1, A1, WHITE)
              /\ (ret.value[771 + 1] = 1) <=> HomeRight(board, B, "k", E8, H8, BLACK)
              /\ (ret.value[772 + 1] = 1) <=> HomeRight(board, B, "q", E8, A8, BLACK)

\* C2 witness: the vector of a position with a black rook on h8 (plane 7,
\* square 63), black to move and only black's kingside right
C2_Witness ==
    /\ dataset = "codec" /\ op = "fen_to_array" /\ ret.exc = "None"
    /\ ret.value[64 * 7 + 63 + 1] = 1
    /\ ret.value[768 + 1] = 0
    /\ SubSeq(ret.value, 770, 773) = <<0, 0, 1, 0>>

\* the vectors of the records of a corpus that parse
Encodings(list) ==
    {fen_to_array(list[i]).value : i \in {j \in 1 .. Len(list) : ~Unparsable(list[j])}}

\* C3: pair label.  Whatever the index, a triple DeepChessDataset.__getitem__
\* returns is (encode(w), encode(b), (1,0)) or (encode(b), encode(w), (0,1))
\* for a w of white_positions and a b of black_positions: with (1,0) the
\* first vector is of a white-won position, with (0,1) of a white-lost one.
C3_PairLabel ==
    (op = "DeepChessDataset.__getitem__" /\ ret.exc = "None") =>
        /\ Len(ret.value) = 3
        /\ \/ /\ ret.value[3] = <<1, 0>>
              /\ ret.value[1] \in Encodings(white_positions)
              /\ ret.value[2] \in Encodings(black_positions)
              /\ ret.value[1] \notin Encodings(black_positions)
           \/ /\ ret.value[3] = <<0, 1>>
              /\ ret.value[1] \in Encodings(black_positions)
              /\ ret.value[2] \in Encodings(white_positions)
              /\ ret.value[1] \notin Encodings(white_positions)

\* C3 witness: a call with a non-zero index that drew side 1 and returned the
\* white-lost position first
C3_Witness ==
    /\ op = "DeepChessDataset.__getitem__" /\ ret.exc = "None"
    /\ arg.index > 0 /\ arg.side = 1
    /\ ret.value[3] = <<0, 1>>
    /\ Len(white_positions) = 2

\* C4: array_to_fen of a vector whose length is not 773 raises an error and
\* returns no FEN.
C4_WrongLengthRaises ==
    (op = "array_to_fen" /\ Len(array) # 773) => ret.exc # "None"

\* C5: AEDataset.__getitem__(index) raises for every index outside
\* [0, len(positions)) and returns no vector for it.
C5_OutOfRangeRaises ==
    (op = "AEDataset.__getitem__" /\ (arg.index < 0 \/ arg.index >= Len(positions))) =>
        ret.exc # "None"

\* C6: empty corpus.  With white_positions or black_positions empty,
\* DeepChessDataset.__getitem__ raises the error of an empty draw
\* (torch.randint's RuntimeError) and returns no triple.
C6_EmptyCorpus ==
    (op = "DeepChessDataset.__getitem__"
        /\ (Len(white_positions) = 0 \/ Len(black_positions) = 0)) =>
        (ret.exc = "RuntimeError" /\ ret.value = <<>>)

\* C6 witness: a call on a dataset whose white corpus holds records and whose
\* black corpus is empty
C6_Witness ==
    /\ op = "DeepChessDataset.__getitem__"
    /\ Len(white_positions) = 2 /\ Len(black_positions) = 0
    /\ ret.exc = "RuntimeError"

\* C7: AEDataset.__len__() is the size of the corpus, and for an index in
\* [0, len) every call of __getitem__(index) has the outcome of
\* fen_to_array(positions[index]); a call that follows a call with the same
\* index has the same outcome.
C7_Deterministic ==
    /\ [](op = "AEDataset.__len__" => ret = Ok(Len(positions)))
    /\ []((op = "AEDataset.__getitem__" /\ 0 <= arg.index /\ arg.index < Len(positions)) =>
            \A r \in {fen_to_array(positions[arg.index + 1])} :
                ret.exc = r.exc /\ ret.value = r.value)
    /\ [][(op = "AEDataset.__getitem__" /\ op' = "AEDataset.__getitem__"
             /\ arg'.index = arg.index) => ret' = ret]_vars

\* C7 witness: the second record of a corpus of two different records,
\* returned as a vector
C7_Witness ==
    /\ op = "AEDataset.__getitem__" /\ ret.exc = "None"
    /\ arg.index = 1 /\ Len(positions) = 2
    /\ positions[1] # positions[2]
    /\ Len(ret.value) = 773

\* C8: no skipping.  When the record a sampler selected (the record at the
\* drawn index of the pair sampler, the record at the index given to the
\* single-item sampler) does not parse, the call raises the parse error
\* (ValueError) and returns nothing.
C8_ErrorPropagates ==
    /\ (op = "DeepChessDataset.__getitem__"
          /\ Len(white_positions) > 0 /\ Len(black_positions) > 0
          /\ \/ Unparsable(white_positions[arg.white_index + 1])
             \/ Unparsable(black_positions[arg.black_index + 1])) =>
          (ret.exc = "ValueError" /\ ret.value = <<>>)
    /\ (op = "AEDataset.__getitem__" /\ 0 <= arg.index /\ arg.index < Len(positions)
          /\ Unparsable(positions[arg.index + 1])) =>
          (ret.exc = "ValueError" /\ ret.value = <<>>)

\* C8 witness: a pair draw whose white record parses and whose black record
\* does not, in a corpus that also holds a record that parses
C8_Witness ==
    /\ op = "DeepChessDataset.__getitem__"
    /\ Len(white_positions) > 0 /\ Len(black_positions) = 2
    /\ ~Unparsable(white_positions[arg.white_index + 1])
    /\ Unparsable(black_positions[arg.black_index + 1])
    /\ \E i \in 1 .. Len(black_positions) : ~Unparsable(black_positions[i])
    /\ ret.exc = "ValueError"

\* the planes of a vector that have the bit of square p set
PlanesAt(a, p) == {k \in 0 .. 11 : a[64 * k + p + 1] # 0}

\* C9: overlap.  For a vector of 773 elements array_to_fen raises nothing
\* and the FEN it returns has, on every square p, the piece of the latest
\* plane that has bit p set, and nothing where no plane has it set.
C9_LastPlaneWins ==
    (op = "array_to_fen" /\ dataset = "decoder" /\ Len(array) = 773) =>
        /\ ret.exc = "None"
        /\ \A back \in {Board(ret.value)} :
              /\ back.exc = "None"
              /\ \A p \in SQUARES :
                    PieceAt(back.value, p) =
                        IF PlanesAt(array, p) = {} THEN <<0, FALSE>>
                        ELSE LayoutPair(msb(PlanesAt(array, p)))

\* C9 witness: a decoded vector in which two planes claim one square
C9_Witness ==
    /\ op = "array_to_fen" /\ dataset = "decoder" /\ Len(array) = 773
    /\ ret.exc = "None"
    /\ \E p \in SQUARES : Cardinality(PlanesAt(array, p)) = 2

\* C10: no mutation.  No call changes the board given to fen_to_array or
\* the contents, order and lengths of white_positions, black_positions and
\* positions; poses_per_epoch keeps its value and __len__ returns it.
C10_NoMutation ==
    /\ [][/\ board' = board
          /\ white_positions' = white_positions
          /\ black_positions' = black_positions
          /\ positions' = positions
          /\ poses_per_epoch' = poses_per_epoch]_vars
    /\ [](op = "DeepChessDataset.__len__" => ret = Ok(poses_per_epoch))

\* C10 witness: a pair draw that encoded a record held as a chess.Board
C10_Witness ==
    /\ op = "DeepChessDataset.__getitem__" /\ ret.exc = "None"
    /\ white_positions[arg.white_index + 1].type = "Board"
    /\ poses_per_epoch = DEFAULT_POSES_PER_EPOCH

====
